---- MODULE Spec2Model ----
(***************************************************************************)
(* Model of django_clickhouse.utils: ExceptionThread, exec_in_parallel and *)
(* exec_multi_db_func.  One coordinator (the calling thread, id 0) and the *)
(* ExceptionThread workers (ids 1..) that exec_in_parallel starts.         *)
(***************************************************************************)
EXTENDS Bags, FiniteSets, Integers, Sequences, TLC

(* ---- bounds of the model ---- *)
MaxItems == 2          \* longest work queue / resource list
MaxThreadsCount == 2   \* largest threads_count argument

(* ---- inputs ---- *)
Keys == {"a", "b"}                 \* first positional argument (db alias)
Values == {"r1", "r2"}             \* values func can return
MainThread == 0
Workers == 1..MaxItems

\* threads_count: Optional[int]; <<>> is None, <<k>> the integer k
ThreadsCounts == {<<>>} \cup {<<k>> : k \in (-1)..MaxThreadsCount}

\* *args / **kwargs shared by every call of exec_multi_db_func
SharedArgs == {[args |-> <<>>, kwargs |-> {}],
               [args |-> <<"x">>, kwargs |-> {<<"k", "v">>}]}

\* What one invocation of func does: return a value, raise an Exception,
\* raise queue.Empty, raise a BaseException that is no Exception
\* (SystemExit, KeyboardInterrupt), or never return.
RaiseKinds == {"Exception", "Empty", "BaseException"}
Outcomes == {[kind |-> "return", value |-> v] : v \in Values}
            \cup {[kind |-> k, value |-> "-"] : k \in RaiseKinds \cup {"hang"}}

\* func, as a table over the first positional argument
Funcs == [Keys -> Outcomes]

SeqsUpTo(S, n) == UNION {[1..m -> S] : m \in 0..n}

None == [kind |-> "None", thread |-> -1, id |-> 0]

\* the exception object raised by the invocation of func on item id in thread t
ExcObj(kind, t, id) == [kind |-> kind, thread |-> t, id |-> id]

\* a work item: the tuple (args, kwargs); id is the identity of the tuple object
WorkItem(id, args, kwargs) == [id |-> id, args |-> args, kwargs |-> kwargs]

NoItem == WorkItem(0, <<>>, {})

VARIABLES
    entry,              \* which public function the caller called
    func,               \* the callable
    using,              \* exec_multi_db_func: list(using)
    shared,             \* exec_multi_db_func: *args, **kwargs
    threads_count_arg,  \* the threads_count argument
    queueCreated,       \* a Queue object exists
    queued,             \* the items put on the queue before the run
    args_queue,         \* Queue contents (FIFO)
    unfinished_tasks,   \* Queue.unfinished_tasks
    results,            \* exec_in_parallel: results
    results_lock,       \* holder of results_lock, -1 when free
    threads_count,      \* exec_in_parallel: resolved threads_count
    threads,            \* exec_in_parallel: threads (list of worker ids)
    joinIdx,            \* position of the join loop in threads
    pcMain,             \* position of the calling thread
    pc,                 \* position of each worker thread
    item,               \* _worker: (args, kwargs) just dequeued
    local_res,          \* _worker: local_res
    exc,                \* ExceptionThread.exc
    ret,                \* list returned to the caller
    raised,             \* exception that escaped to the caller
    calls,              \* bag of invocations of func: [thread, id, args, kwargs]
    taken,              \* bag of dequeues: [thread, id]
    captureOrder        \* workers in the order in which they stored self.exc

vars == <<entry, func, using, shared, threads_count_arg, queueCreated, queued,
          args_queue, unfinished_tasks, results, results_lock, threads_count,
          threads, joinIdx, pcMain, pc, item, local_res, exc, ret, raised,
          calls, taken, captureOrder>>

inputVars == <<entry, func, using, shared, threads_count_arg>>
workerVars == <<pc, item, local_res, exc, captureOrder>>
mainVars == <<threads_count, threads, joinIdx, pcMain, ret, raised>>

\* a QueueOf that forgets the shared positional and named arguments
QueueOfNoShared(keys, sh) ==
    [i \in 1..Len(keys) |-> WorkItem(i, <<keys[i]>>, {})]

\* Queue.put for each element of a list, on a fresh queue
QueueOf(keys, sh) ==
    [i \in 1..Len(keys) |-> WorkItem(i, <<keys[i]>> \o sh.args, sh.kwargs)]

\* func(*args, **kwargs)
Invoke(f, args) == f[args[1]]

Init ==
    /\ entry \in {"exec_in_parallel", "exec_multi_db_func"}
    /\ func \in Funcs
    /\ threads_count_arg \in ThreadsCounts
    /\ using \in SeqsUpTo(Keys, MaxItems)
    /\ IF entry = "exec_multi_db_func"
       THEN /\ shared \in SharedArgs
            /\ queueCreated = FALSE
            /\ queued = <<>>
            /\ pcMain = "exec_multi_db_func"
       ELSE \* the caller built the queue: one (args, kwargs) per element
            /\ shared = [args |-> <<>>, kwargs |-> {}]
            /\ queueCreated = TRUE
            /\ queued = QueueOf(using, shared)
            /\ pcMain = "exec_in_parallel"
    /\ args_queue = queued
    /\ unfinished_tasks = Len(queued)
    /\ results = <<>>
    /\ results_lock = -1
    /\ threads_count = 0
    /\ threads = <<>>
    /\ joinIdx = 0
    /\ pc = [w \in Workers |-> "unstarted"]
    /\ item = [w \in Workers |-> NoItem]
    /\ local_res = [w \in Workers |-> "-"]
    /\ exc = [w \in Workers |-> None]
    /\ ret = <<>>
    /\ raised = None
    /\ calls = EmptyBag
    /\ taken = EmptyBag
    /\ captureOrder = <<>>

(* ---- exec_multi_db_func ---- *)

\* len(using) == 0: return []
MultiDbEmpty ==
    /\ pcMain = "exec_multi_db_func"
    /\ Len(using) = 0
    /\ pcMain' = "returned"
    /\ ret' = <<>>
    /\ UNCHANGED <<inputVars, workerVars, queueCreated, queued, args_queue,
                   unfinished_tasks, results, results_lock, threads_count,
                   threads, joinIdx, raised, calls, taken>>

\* len(using) == 1: func(using[0], *args, **kwargs) is entered in the caller's thread
MultiDbSingleCall ==
    /\ pcMain = "exec_multi_db_func"
    /\ Len(using) = 1
    /\ pcMain' = "single_call"
    /\ calls' = calls (+) SetToBag({[thread |-> MainThread, id |-> 1,
                                     args |-> <<using[1]>> \o shared.args,
                                     kwargs |-> shared.kwargs]})
    /\ UNCHANGED <<inputVars, workerVars, queueCreated, queued, args_queue,
                   unfinished_tasks, results, results_lock, threads_count,
                   threads, joinIdx, ret, raised, taken>>

\* ... and its outcome: return [value], or the exception propagates
MultiDbSingleDone ==
    /\ pcMain = "single_call"
    /\ LET o == Invoke(func, <<using[1]>> \o shared.args) IN
         /\ o.kind # "hang"
         /\ IF o.kind = "return"
            THEN /\ ret' = <<o.value>>
                 /\ pcMain' = "returned"
                 /\ UNCHANGED raised
            ELSE /\ raised' = ExcObj(o.kind, MainThread, 1)
                 /\ pcMain' = "raised"
                 /\ UNCHANGED ret
    /\ UNCHANGED <<inputVars, workerVars, queueCreated, queued, args_queue,
                   unfinished_tasks, results, results_lock, threads_count,
                   threads, joinIdx, calls, taken>>

\* MultiDbFanOut without the `len(using) == 0` branch
MultiDbFanOutNoEmptyCheck ==
    /\ pcMain = "exec_multi_db_func"
    /\ Len(using) # 1
    /\ queueCreated' = TRUE
    /\ queued' = QueueOf(using, shared)
    /\ args_queue' = QueueOf(using, shared)
    /\ unfinished_tasks' = Len(using)
    /\ pcMain' = "exec_in_parallel"
    /\ UNCHANGED <<inputVars, workerVars, results, results_lock, threads_count,
                   threads, joinIdx, ret, raised, calls, taken>>

\* MultiDbFanOut without the `len(using) == 1` branch
MultiDbFanOutNoFastPath ==
    /\ pcMain = "exec_multi_db_func"
    /\ Len(using) >= 1
    /\ queueCreated' = TRUE
    /\ queued' = QueueOf(using, shared)
    /\ args_queue' = QueueOf(using, shared)
    /\ unfinished_tasks' = Len(using)
    /\ pcMain' = "exec_in_parallel"
    /\ UNCHANGED <<inputVars, workerVars, results, results_lock, threads_count,
                   threads, joinIdx, ret, raised, calls, taken>>

\* otherwise: q = Queue(); q.put(([s] + list(args), kwargs)) for each s;
\* return exec_in_parallel(func, q, threads_count=threads_count)
MultiDbFanOut ==
    /\ pcMain = "exec_multi_db_func"
    /\ Len(using) >= 2
    /\ queueCreated' = TRUE
    /\ queued' = QueueOf(using, shared)
    /\ args_queue' = QueueOf(using, shared)
    /\ unfinished_tasks' = Len(using)
    /\ pcMain' = "exec_in_parallel"
    /\ UNCHANGED <<inputVars, workerVars, results, results_lock, threads_count,
                   threads, joinIdx, ret, raised, calls, taken>>

(* ---- exec_in_parallel ---- *)

Min(a, b) == IF a <= b THEN a ELSE b

Max(a, b) == IF a >= b THEN a ELSE b

\* ResolveThreadsCount without the min(): threads_count taken as given
ResolveThreadsCountNoMin(qsize, tc) ==
    IF tc # <<>> /\ tc[1] # 0 THEN tc[1] ELSE qsize

\* ResolveThreadsCount that always keeps one worker
ResolveThreadsCountAtLeastOne(qsize, tc) ==
    Max(1, IF tc # <<>> /\ tc[1] # 0 THEN Min(qsize, tc[1]) ELSE qsize)

\* min(args_queue.qsize(), threads_count) if threads_count else args_queue.qsize()
ResolveThreadsCount(qsize, tc) ==
    IF tc # <<>> /\ tc[1] # 0 THEN Min(qsize, tc[1]) ELSE qsize

\* results = []; results_lock = Lock(); threads_count = ...; threads = []
ExecStart ==
    /\ pcMain = "exec_in_parallel"
    /\ results' = <<>>
    /\ results_lock' = -1
    /\ threads_count' = ResolveThreadsCount(Len(args_queue), threads_count_arg)
    /\ threads' = <<>>
    /\ pcMain' = "spawn"
    /\ UNCHANGED <<inputVars, workerVars, queueCreated, queued, args_queue,
                   unfinished_tasks, joinIdx, ret, raised, calls, taken>>

\* for index in range(threads_count): t = ExceptionThread(...); threads.append(t); t.start()
Spawn ==
    /\ pcMain = "spawn"
    /\ Len(threads) < threads_count
    /\ LET t == Len(threads) + 1 IN
         /\ threads' = Append(threads, t)
         /\ exc' = [exc EXCEPT ![t] = None]
         /\ pc' = [pc EXCEPT ![t] = "get"]
    /\ UNCHANGED <<inputVars, item, local_res, captureOrder, queueCreated, queued, args_queue,
                   unfinished_tasks, results, results_lock, threads_count,
                   joinIdx, pcMain, ret, raised, calls, taken>>

\* SpawnDone whose join loop looks at the last thread only
SpawnDoneJoinLast ==
    /\ pcMain = "spawn"
    /\ Len(threads) >= threads_count
    /\ pcMain' = "join"
    /\ joinIdx' = Max(1, Len(threads))
    /\ UNCHANGED <<inputVars, workerVars, queueCreated, queued, args_queue,
                   unfinished_tasks, results, results_lock, threads_count,
                   threads, ret, raised, calls, taken>>

\* range(threads_count) is exhausted: go on to the join loop
SpawnDone ==
    /\ pcMain = "spawn"
    /\ Len(threads) >= threads_count
    /\ pcMain' = "join"
    /\ joinIdx' = 1
    /\ UNCHANGED <<inputVars, workerVars, queueCreated, queued, args_queue,
                   unfinished_tasks, results, results_lock, threads_count,
                   threads, ret, raised, calls, taken>>

\* ExceptionThread.join: Thread.join() returns once the thread has ended,
\* then `if self.exc: raise self.exc`
\* a join that does not wait for the thread
ThreadEndedNoWait(p) == TRUE

ThreadEnded(p) == p = "done"

JoinRaises(e) == e # None

Join ==
    /\ pcMain = "join"
    /\ joinIdx <= Len(threads)
    /\ ThreadEnded(pc[threads[joinIdx]])
    /\ IF JoinRaises(exc[threads[joinIdx]])
       THEN /\ raised' = exc[threads[joinIdx]]
            /\ pcMain' = "raised"
            /\ UNCHANGED joinIdx
       ELSE /\ joinIdx' = joinIdx + 1
            /\ UNCHANGED <<raised, pcMain>>
    /\ UNCHANGED <<inputVars, workerVars, queueCreated, queued, args_queue,
                   unfinished_tasks, results, results_lock, threads_count,
                   threads, ret, calls, taken>>

\* return results
Return ==
    /\ pcMain = "join"
    /\ joinIdx > Len(threads)
    /\ ret' = results
    /\ pcMain' = "returned"
    /\ UNCHANGED <<inputVars, workerVars, queueCreated, queued, args_queue,
                   unfinished_tasks, results, results_lock, threads_count,
                   threads, joinIdx, raised, calls, taken>>

(* ---- _worker, run by ExceptionThread.run ---- *)

\* a get_nowait that leaves the item on the queue
GetNowaitPeek(q) == [got |-> Head(q), rest |-> q]

\* Queue.get_nowait on a non-empty queue: the item handed out and the rest
GetNowait(q) == [got |-> Head(q), rest |-> Tail(q)]

\* args, kwargs = args_queue.get_nowait(), then func(*args, **kwargs) is entered
WorkerGet(w) ==
    /\ pc[w] = "get"
    /\ args_queue # <<>>
    /\ LET g == GetNowait(args_queue) IN
         /\ args_queue' = g.rest
         /\ item' = [item EXCEPT ![w] = g.got]
         /\ taken' = taken (+) SetToBag({[thread |-> w, id |-> g.got.id]})
         /\ calls' = calls (+) SetToBag({[thread |-> w, id |-> g.got.id,
                                          args |-> g.got.args,
                                          kwargs |-> g.got.kwargs]})
    /\ pc' = [pc EXCEPT ![w] = "call"]
    /\ UNCHANGED <<inputVars, mainVars, local_res, exc, captureOrder, queueCreated, queued,
                   unfinished_tasks, results, results_lock>>

\* a blocking get(): on an empty queue the worker waits instead of ending
WorkerEmptyBlocks(w) ==
    /\ pc[w] = "get"
    /\ args_queue = <<>>
    /\ UNCHANGED vars

\* get_nowait raises Empty: finished = True, the loop and the thread end
WorkerEmpty(w) ==
    /\ pc[w] = "get"
    /\ args_queue = <<>>
    /\ pc' = [pc EXCEPT ![w] = "done"]
    /\ UNCHANGED <<inputVars, mainVars, item, local_res, exc, captureOrder, queueCreated,
                   queued, args_queue, unfinished_tasks, results, results_lock,
                   calls, taken>>

\* except Exception as e: self.exc = e   (ExceptionThread.run)
Captured(kind) == kind = "Exception"

\* func returns: local_res = ...
WorkerCallReturn(w) ==
    /\ pc[w] = "call"
    /\ Invoke(func, item[w].args).kind = "return"
    /\ local_res' = [local_res EXCEPT ![w] = Invoke(func, item[w].args).value]
    /\ pc' = [pc EXCEPT ![w] = "lock"]
    /\ UNCHANGED <<inputVars, mainVars, item, exc, captureOrder, queueCreated, queued,
                   args_queue, unfinished_tasks, results, results_lock, calls,
                   taken>>

\* a worker that goes on to the next item after a failure of func
WorkerCallRaiseContinue(w) ==
    /\ pc[w] = "call"
    /\ Invoke(func, item[w].args).kind \in RaiseKinds
    /\ LET k == Invoke(func, item[w].args).kind IN
         IF Captured(k)
         THEN /\ exc' = [exc EXCEPT ![w] = ExcObj(k, w, item[w].id)]
              /\ captureOrder' = Append(captureOrder, w)
         ELSE UNCHANGED <<exc, captureOrder>>
    /\ pc' = [pc EXCEPT ![w] = "get"]
    /\ UNCHANGED <<inputVars, mainVars, item, local_res, queueCreated, queued,
                   args_queue, unfinished_tasks, results, results_lock, calls,
                   taken>>

\* func raises.  queue.Empty is caught by _worker's own `except Empty`
\* (finished = True); any other Exception leaves _worker and is stored by
\* ExceptionThread.run; a BaseException that is no Exception leaves run()
\* too and ends the thread.  In each case the thread ends.
WorkerCallRaise(w) ==
    /\ pc[w] = "call"
    /\ Invoke(func, item[w].args).kind \in RaiseKinds
    /\ LET k == Invoke(func, item[w].args).kind IN
         IF Captured(k)
         THEN /\ exc' = [exc EXCEPT ![w] = ExcObj(k, w, item[w].id)]
              /\ captureOrder' = Append(captureOrder, w)
         ELSE UNCHANGED <<exc, captureOrder>>
    /\ pc' = [pc EXCEPT ![w] = "done"]
    /\ UNCHANGED <<inputVars, mainVars, item, local_res, queueCreated, queued,
                   args_queue, unfinished_tasks, results, results_lock, calls,
                   taken>>

\* entering the block without waiting for the lock
WorkerAcquireNoWait(w) ==
    /\ pc[w] = "lock"
    /\ results_lock' = w
    /\ pc' = [pc EXCEPT ![w] = "append"]
    /\ UNCHANGED <<inputVars, mainVars, item, local_res, exc, captureOrder,
                   queueCreated, queued, args_queue, unfinished_tasks, results,
                   calls, taken>>

\* with results_lock: (acquire)
WorkerAcquire(w) ==
    /\ pc[w] = "lock"
    /\ results_lock = -1
    /\ results_lock' = w
    /\ pc' = [pc EXCEPT ![w] = "append"]
    /\ UNCHANGED <<inputVars, mainVars, item, local_res, exc, captureOrder, queueCreated,
                   queued, args_queue, unfinished_tasks, results, calls, taken>>

\* an append that replaces the list instead of extending it
WorkerAppendOverwrite(w) ==
    /\ pc[w] = "append"
    /\ results' = <<local_res[w]>>
    /\ results_lock' = -1
    /\ pc' = [pc EXCEPT ![w] = "task_done"]
    /\ UNCHANGED <<inputVars, mainVars, item, local_res, exc, captureOrder,
                   queueCreated, queued, args_queue, unfinished_tasks, calls,
                   taken>>

\* results.append(local_res), and the lock is released on leaving the block
WorkerAppend(w) ==
    /\ pc[w] = "append"
    /\ results' = Append(results, local_res[w])
    /\ results_lock' = -1
    /\ pc' = [pc EXCEPT ![w] = "task_done"]
    /\ UNCHANGED <<inputVars, mainVars, item, local_res, exc, captureOrder, queueCreated,
                   queued, args_queue, unfinished_tasks, calls, taken>>

\* a worker without the loop: it ends after its first item
WorkerTaskDoneOnce(w) ==
    /\ pc[w] = "task_done"
    /\ unfinished_tasks' = unfinished_tasks - 1
    /\ pc' = [pc EXCEPT ![w] = "done"]
    /\ UNCHANGED <<inputVars, mainVars, item, local_res, exc, captureOrder,
                   queueCreated, queued, args_queue, results, results_lock,
                   calls, taken>>

\* args_queue.task_done(), then back to the head of the loop
WorkerTaskDone(w) ==
    /\ pc[w] = "task_done"
    /\ unfinished_tasks' = unfinished_tasks - 1
    /\ pc' = [pc EXCEPT ![w] = "get"]
    /\ UNCHANGED <<inputVars, mainVars, item, local_res, exc, captureOrder, queueCreated,
                   queued, args_queue, results, results_lock, calls, taken>>

Worker(w) ==
    \/ WorkerGet(w)
    \/ WorkerEmpty(w)
    \/ WorkerCallReturn(w)
    \/ WorkerCallRaise(w)
    \/ WorkerAcquire(w)
    \/ WorkerAppend(w)
    \/ WorkerTaskDone(w)

Next ==
    \/ MultiDbEmpty
    \/ MultiDbSingleCall
    \/ MultiDbSingleDone
    \/ MultiDbFanOut
    \/ ExecStart
    \/ Spawn
    \/ SpawnDone
    \/ Join
    \/ Return
    \/ \E w \in Workers : Worker(w)

Spec == Init /\ [][Next]_vars

(* ---- scheduling ---- *)

\* the steps of the calling thread inside exec_in_parallel
Coordinator ==
    \/ ExecStart
    \/ Spawn
    \/ SpawnDone
    \/ Join
    \/ Return

\* a direct call of exec_in_parallel on a queue the caller has filled
ExecInit == Init /\ entry = "exec_in_parallel"

ExecNext ==
    \/ ExecStart
    \/ Spawn
    \/ SpawnDone
    \/ Join
    \/ Return
    \/ \E w \in Workers : Worker(w)

\* preemptive OS threads: a thread that can keep taking a step takes it
Fairness ==
    /\ WF_vars(Coordinator)
    /\ \A w \in Workers : WF_vars(Worker(w))

\* the runs of exec_in_parallel under fair scheduling
FairSpec == ExecInit /\ [][ExecNext]_vars /\ Fairness

(***************************************************************************)
(* Properties                                                              *)
(***************************************************************************)

\* exec_in_parallel ran (called directly, or by exec_multi_db_func)
RanExecInParallel == entry = "exec_in_parallel" \/ Len(using) >= 2

\* threads_count is unset or a positive integer
PositiveOrUnset(tc) == tc = <<>> \/ tc[1] >= 1

Range(s) == {s[i] : i \in DOMAIN s}

SeqToBag(s) == [v \in Range(s) |-> Cardinality({i \in DOMAIN s : s[i] = v})]

\* func succeeds on every queued item
AllSucceed ==
    \A i \in 1..Len(queued) : Invoke(func, queued[i].args).kind = "return"

\* the values of func on the queued items, in queue order
ExpectedValues ==
    [i \in 1..Len(queued) |-> Invoke(func, queued[i].args).value]

\* number of entries of bag B that are about item i
CountOfItem(B, i) ==
    BagCardinality([e \in {x \in BagToSet(B) : x.id = i} |-> B[e]])

\* the invocation of func in worker w raised (whatever the exception)
WorkerFuncRaised(w) ==
    /\ pc[w] = "done"
    /\ item[w] # NoItem
    /\ Invoke(func, item[w].args).kind \in RaiseKinds

\* C1: when func succeeds on every item and the worker cap is unset or
\* positive, exec_in_parallel does not raise, and the list it returns has one
\* element per queued item and the same multiset of values as func applied
\* to each item, in any order.
C1_ResultsAreFuncOfItems ==
    (RanExecInParallel /\ PositiveOrUnset(threads_count_arg) /\ AllSucceed) =>
        /\ pcMain # "raised"
        /\ pcMain = "returned" =>
              /\ Len(ret) = Len(queued)
              /\ SeqToBag(ret) = SeqToBag(ExpectedValues)

\* C1 witness: two workers returned two different values in the reverse of
\* the queue order.
C1_Witness ==
    /\ RanExecInParallel /\ AllSucceed /\ pcMain = "returned"
    /\ Len(queued) = 2 /\ Len(threads) = 2
    /\ ret = <<ExpectedValues[2], ExpectedValues[1]>>
    /\ ret[1] # ret[2]

\* C2: every work item is dequeued at most once, hence by at most one
\* worker, and func is invoked at most once per item.
C2_AtMostOncePerItem ==
    \A i \in 1..MaxItems :
        /\ CountOfItem(taken, i) <= 1
        /\ CountOfItem(calls, i) <= 1

\* C2 witness: two items went to two different workers, and one invocation
\* failed.
C2_Witness ==
    /\ BagToSet(taken) = {[thread |-> 1, id |-> 2], [thread |-> 2, id |-> 1]}
    /\ exc[2] # None
    /\ pc[1] = "done" /\ pc[2] = "done"

\* func raises on exactly one of N >= 2 resources and returns on the others
ExactlyOneRaises ==
    /\ entry = "exec_multi_db_func"
    /\ Len(using) >= 2
    /\ Cardinality({i \in 1..Len(using) : func[using[i]].kind \in RaiseKinds}) = 1
    /\ \A i \in 1..Len(using) : func[using[i]].kind \in RaiseKinds \cup {"return"}

RaisingResource == CHOOSE i \in 1..Len(using) : func[using[i]].kind \in RaiseKinds

\* C3: when func raises on exactly one of N >= 2 resources, exec_multi_db_func
\* never returns a result list, and what it raises is the exception of that
\* invocation.
C3_RaisesThatException ==
    (ExactlyOneRaises /\ PositiveOrUnset(threads_count_arg)) =>
        /\ pcMain # "returned"
        /\ pcMain = "raised" =>
              /\ raised.id = RaisingResource
              /\ raised.kind = func[using[RaisingResource]].kind

\* C4: whenever func raised inside a worker, the exception is stored as the
\* worker's outcome and exec_in_parallel does not return a result list.
C4_NoFailureSuppressed ==
    \A w \in Workers :
        WorkerFuncRaised(w) => (exc[w] # None /\ pcMain # "returned")

\* C5 as stated: when exec_in_parallel has raised, every worker has ended.
C5_AllWorkersEndedAtRaise ==
    (RanExecInParallel /\ pcMain = "raised") =>
        \A k \in 1..Len(threads) : pc[threads[k]] = "done"

\* C5: when exec_in_parallel has raised, the worker whose exception is
\* raised and every worker started before it have ended.
C5_JoinedWorkersEndedAtRaise ==
    (RanExecInParallel /\ pcMain = "raised") =>
        /\ joinIdx \in 1..Len(threads)
        /\ raised = exc[threads[joinIdx]]
        /\ \A k \in 1..joinIdx : pc[threads[k]] = "done"

\* C5 witness: the exception of the first worker has escaped while the
\* second worker is about to dequeue an item that is still queued.
C5_Witness ==
    /\ RanExecInParallel /\ pcMain = "raised"
    /\ joinIdx = 1 /\ Len(threads) = 2
    /\ pc[threads[2]] = "get" /\ args_queue # <<>>

\* C6: every worker is started before any is joined, the joined workers are
\* a prefix of the start order, and the exception raised is the one stored
\* by the earliest-started worker that stored one; a result list is returned
\* only when no worker stored one.
C6_EarliestStartedFailureSurfaces ==
    /\ \A k \in 1..Len(threads) : threads[k] = k
    /\ joinIdx >= 1 =>
          /\ Len(threads) = Max(0, threads_count)
          /\ \A k \in 1..Len(threads) : pc[threads[k]] # "unstarted"
          /\ \A k \in 1..Len(threads) :
                k < joinIdx => (pc[threads[k]] = "done" /\ exc[threads[k]] = None)
    /\ (RanExecInParallel /\ pcMain = "raised") =>
          /\ raised.thread \in Range(threads)
          /\ raised = exc[raised.thread]
          /\ \A w \in Range(threads) : exc[w] # None => raised.thread <= w
    /\ (RanExecInParallel /\ pcMain = "returned") =>
          \A w \in Range(threads) : exc[w] = None

\* C6 witness: the second worker stored its exception first, the first
\* worker stored one later, and the first worker's is the one raised.
C6_Witness ==
    /\ pcMain = "raised"
    /\ captureOrder = <<2, 1>>
    /\ raised = exc[1]

\* the spawn loop of exec_in_parallel is over
SpawnLoopOver == RanExecInParallel /\ pcMain \in {"join", "returned", "raised"}

C8_EmptyQueue ==
    (entry = "exec_in_parallel" /\ Len(queued) = 0) =>
        /\ threads = <<>>
        /\ \A w \in Workers : pc[w] = "unstarted"
        /\ calls = EmptyBag
        /\ pcMain # "raised"
        /\ pcMain = "returned" => ret = <<>>

\* C8 witness: the call on an empty queue with a threads_count returned.
C8_Witness ==
    /\ entry = "exec_in_parallel" /\ Len(queued) = 0
    /\ threads_count_arg = <<2>>
    /\ pcMain = "returned"

\* C9: with no resource exec_multi_db_func returns the empty list, and it
\* invokes no func, creates no queue and starts no thread.
C9_NoResource ==
    (entry = "exec_multi_db_func" /\ Len(using) = 0) =>
        /\ calls = EmptyBag
        /\ ~queueCreated
        /\ threads = <<>>
        /\ \A w \in Workers : pc[w] = "unstarted"
        /\ pcMain \in {"exec_multi_db_func", "returned"}
        /\ pcMain = "returned" => ret = <<>>

\* C9 witness: the call with no resource returned.
C9_Witness ==
    /\ entry = "exec_multi_db_func" /\ Len(using) = 0
    /\ pcMain = "returned"

\* C10: with one resource exec_multi_db_func starts no thread and invokes
\* func at most once, in the calling thread, on the resource followed by the
\* shared arguments; it returns only the one-element list of that call's
\* value and raises only the exception of that call.
C10_SingleResource ==
    (entry = "exec_multi_db_func" /\ Len(using) = 1) =>
        /\ threads = <<>>
        /\ \A w \in Workers : pc[w] = "unstarted"
        /\ BagCardinality(calls) <= 1
        /\ \A e \in BagToSet(calls) :
              /\ e.thread = MainThread
              /\ e.args = <<using[1]>> \o shared.args
              /\ e.kwargs = shared.kwargs
        /\ pcMain \in {"returned", "raised"} => BagCardinality(calls) = 1
        /\ pcMain = "returned" =>
              /\ func[using[1]].kind = "return"
              /\ ret = <<func[using[1]].value>>
        /\ pcMain = "raised" =>
              /\ func[using[1]].kind \in RaiseKinds
              /\ raised = ExcObj(func[using[1]].kind, MainThread, 1)

\* C10 witness: the single call raised queue.Empty and the caller got it,
\* with a threads_count given.
C10_Witness ==
    /\ entry = "exec_multi_db_func" /\ Len(using) = 1
    /\ threads_count_arg = <<2>>
    /\ pcMain = "raised" /\ raised.kind = "Empty"
    /\ BagCardinality(calls) = 1

\* every started worker has ended, and no more will be started
AllWorkersEnded ==
    /\ SpawnLoopOver
    /\ \A k \in 1..Len(threads) : pc[threads[k]] = "done"

\* the workers in which the invocation of func raised
FailedWorkers == {w \in Workers : WorkerFuncRaised(w)}

\* the call func(resource, *args, **kwargs) for the i-th resource
ExpectedCall(i) ==
    [id |-> i, args |-> <<using[i]>> \o shared.args, kwargs |-> shared.kwargs]

\* C11: when exec_multi_db_func with two or more resources and a func that
\* always succeeds has returned (worker cap unset or positive), func was
\* invoked exactly once per resource, each time on the resource followed by
\* the shared positional and named arguments, and never on anything else.
C11_OncePerResource ==
    (entry = "exec_multi_db_func" /\ Len(using) >= 2
        /\ PositiveOrUnset(threads_count_arg)
        /\ \A i \in 1..Len(using) : func[using[i]].kind = "return") =>
        /\ \A e \in BagToSet(calls) :
              /\ e.id \in 1..Len(using)
              /\ e.thread \in Range(threads)
              /\ [id |-> e.id, args |-> e.args, kwargs |-> e.kwargs]
                    = ExpectedCall(e.id)
        /\ pcMain = "returned" =>
              /\ BagCardinality(calls) = Len(using)
              /\ \A i \in 1..Len(using) : CountOfItem(calls, i) = 1

\* C11 witness: two resources with shared arguments, handled by one worker
\* under a cap of 1, and the call has returned.
C11_Witness ==
    /\ entry = "exec_multi_db_func" /\ pcMain = "returned"
    /\ using = <<"a", "b">> /\ shared.args = <<"x">>
    /\ threads_count_arg = <<1>>
    /\ BagToSet(calls) =
          {[thread |-> 1, id |-> i, args |-> <<using[i], "x">>,
            kwargs |-> {<<"k", "v">>}] : i \in 1..2}

\* C12 as stated: once all workers have ended, the results plus one if any
\* invocation failed count the invocations that were started.
C12_ResultsPlusOneFailure ==
    AllWorkersEnded =>
        Len(results) + (IF FailedWorkers # {} THEN 1 ELSE 0)
            = BagCardinality(calls)

\* C12: once all workers have ended, the results plus the number of failed
\* invocations (one per failed worker) count the invocations that were
\* started.
C12_ResultsPlusFailures ==
    AllWorkersEnded =>
        Len(results) + Cardinality(FailedWorkers) = BagCardinality(calls)

\* C12 witness: two workers have failed, so two started items gave no result.
C12_Witness ==
    /\ AllWorkersEnded
    /\ Cardinality(FailedWorkers) = 2
    /\ BagCardinality(calls) = 2 /\ results = <<>>

\* C13 as stated: once the run is over and all workers have ended, as many
\* items were dequeued as were enqueued and the queue is empty (read for a
\* worker cap that is unset or positive).
C13_QueueDrainedAtEnd ==
    (AllWorkersEnded /\ pcMain \in {"returned", "raised"}
        /\ PositiveOrUnset(threads_count_arg)) =>
        /\ args_queue = <<>>
        /\ BagCardinality(taken) = Len(queued)

\* C13: items are neither lost nor duplicated (each queued item is either
\* still queued or was dequeued exactly once), and once all workers have
\* ended in a run that started a worker and in which no invocation failed,
\* the queue is empty and every item was dequeued.
C13_QueueConserved ==
    /\ RanExecInParallel =>
          /\ BagCardinality(taken) + Len(args_queue) = Len(queued)
          /\ \A i \in 1..Len(queued) :
                CountOfItem(taken, i) + Cardinality({j \in DOMAIN args_queue :
                                                       args_queue[j].id = i}) = 1
    /\ (AllWorkersEnded /\ threads # <<>> /\ FailedWorkers = {}) =>
          /\ args_queue = <<>>
          /\ BagCardinality(taken) = Len(queued)

\* C13 witness: a run of one worker over two items has returned with the
\* queue drained.
C13_Witness ==
    /\ AllWorkersEnded /\ pcMain = "returned" /\ FailedWorkers = {}
    /\ Len(queued) = 2 /\ Len(threads) = 1
    /\ args_queue = <<>> /\ BagCardinality(taken) = 2

\* C15 as stated: once a worker has failed, nothing is dequeued any more.
C15_NothingDequeuedAfterFailure ==
    [][FailedWorkers # {} => args_queue' = args_queue]_vars

\* C15: a worker that has failed has ended and dequeues nothing more; once
\* every worker has ended, the items still queued stay queued and func is
\* invoked no more; and when the failure has been raised the caller has
\* received no result list.  (Workers that have not failed may still
\* dequeue after another worker's failure.)
C15_LeftoverItemsNeverProcessed ==
    /\ [](\A w \in Workers :
            (exc[w] # None \/ WorkerFuncRaised(w)) => pc[w] = "done")
    /\ []((RanExecInParallel /\ pcMain = "raised") => ret = <<>>)
    /\ [][/\ \A w \in Workers :
                pc[w] = "done" => (pc'[w] = "done" /\ item'[w] = item[w])
          /\ AllWorkersEnded =>
                (args_queue' = args_queue /\ calls' = calls /\ taken' = taken)
         ]_vars

\* C15 witness: the failure has been raised, every worker has ended and an
\* item is still queued.
C15_Witness ==
    /\ AllWorkersEnded /\ pcMain = "raised"
    /\ FailedWorkers # {}
    /\ args_queue # <<>> /\ ret = <<>>

\* C16: a worker in which func raised has stored that exception as its
\* outcome and has ended; the failed item gave no result, is not back on
\* the queue and was not marked done.
C16_FailedWorkerRecordsAndStops ==
    \A w \in Workers :
        WorkerFuncRaised(w) =>
            /\ exc[w] = ExcObj(Invoke(func, item[w].args).kind, w, item[w].id)
            /\ pc[w] = "done"
            /\ \A j \in DOMAIN args_queue : args_queue[j].id # item[w].id
            /\ unfinished_tasks >= 1

\* invocations by workers that returned or will return a value
ReturningCalls ==
    [e \in {x \in BagToSet(calls) :
              x.thread # MainThread /\ Invoke(func, x.args).kind = "return"}
        |-> calls[e]]

\* workers between the return of func and the end of the append
AppendPending ==
    {w \in Workers :
        \/ pc[w] \in {"lock", "append"}
        \/ pc[w] = "call" /\ Invoke(func, item[w].args).kind = "return"}

\* C17: at most one worker is inside the append block, and it is the holder
\* of results_lock; every successful invocation has given exactly one
\* element of results, or its worker is still on its way to the append.
C17_AppendUnderLock ==
    /\ Cardinality({w \in Workers : pc[w] = "append"}) <= 1
    /\ \A w \in Workers : pc[w] = "append" <=> results_lock = w
    /\ results_lock \in Workers \cup {-1}
    /\ Len(results) + Cardinality(AppendPending) = BagCardinality(ReturningCalls)

\* C17 witness: one worker is inside the block while the other waits for
\* the lock.
C17_Witness ==
    /\ pc[1] = "lock" /\ pc[2] = "append" /\ results_lock = 2

\* worker threads that are running
Alive == {w \in Workers : pc[w] \notin {"unstarted", "done"}}

\* C19: the threads running and the invocations in progress are at most
\* the threads started, which are at most the resolved worker count; that
\* count is at most the number of items queued and at most a positive
\* threads_count.
C19_BoundedConcurrency ==
    /\ Cardinality(Alive) <= Len(threads)
    /\ Cardinality({w \in Workers : pc[w] = "call"}) <= Len(threads)
    /\ Len(threads) <= Max(0, threads_count)
    /\ threads_count <= Len(queued)
    /\ (threads_count_arg # <<>> /\ threads_count_arg[1] >= 1) =>
          threads_count <= threads_count_arg[1]

\* C19 witness: under a cap of 1 on two items, the one worker is inside
\* func while an item is still queued.
C19_Witness ==
    /\ threads_count_arg = <<1>> /\ Len(queued) = 2
    /\ Alive = {1} /\ pc[1] = "call" /\ args_queue # <<>>

\* worker w is inside an invocation of func that never returns
Hung(w) == pc[w] = "call" /\ Invoke(func, item[w].args).kind = "hang"

\* C20: while a worker is inside an invocation that never returns, the join
\* loop has not got past that worker and exec_in_parallel has not returned
\* a result list.
C20_NoReturnWhileBlocked ==
    \A w \in Workers :
        Hung(w) =>
            /\ pcMain # "returned"
            /\ joinIdx <= w

\* C20 witness: the first worker has ended with a result, the second is
\* blocked in func, and the coordinator is held in the join of the second.
C20_Witness ==
    /\ Hung(2) /\ pc[1] = "done"
    /\ pcMain = "join" /\ joinIdx = 2
    /\ Len(results) = 1

\* no invocation of func, on any resource or item of the run, blocks for ever
EveryInvocationEnds == \A i \in 1..Len(using) : func[using[i]].kind # "hang"

\* every queued item has been dequeued and passed to func
AllItemsProcessed ==
    /\ RanExecInParallel /\ pcMain # "exec_multi_db_func"
    /\ args_queue = <<>>
    /\ \A i \in 1..Len(queued) : CountOfItem(calls, i) = 1

\* C14: the step in which a worker fails changes the position of no other
\* worker; a worker that has ended without failing found the queue empty;
\* and (every invocation ending, scheduling fair) from some point on every
\* started worker has failed or every queued item has been dequeued and
\* passed to func: if one started worker never fails, all items are
\* processed.
C14_FailureIsolation ==
    /\ [][\A w \in Workers :
            (WorkerFuncRaised(w)' /\ ~WorkerFuncRaised(w)) =>
                \A v \in Workers \ {w} : pc'[v] = pc[v]]_vars
    /\ [](\A w \in Workers :
            (pc[w] = "done" /\ ~WorkerFuncRaised(w)) => args_queue = <<>>)
    /\ EveryInvocationEnds =>
          <>[](\A w \in Workers :
                 pc[w] = "unstarted" \/ WorkerFuncRaised(w) \/ AllItemsProcessed)

\* C14 witness: the first worker failed on the first item, the second worker
\* did not fail, processed the second item and ended on the empty queue.
C14_Witness ==
    /\ WorkerFuncRaised(1) /\ item[1].id = 1
    /\ pc[2] = "done" /\ ~WorkerFuncRaised(2) /\ item[2].id = 2
    /\ Len(results) = 1
    /\ AllItemsProcessed

\* the call is over and no worker thread is running
Terminated ==
    /\ pcMain \in {"returned", "raised"}
    /\ \A w \in Workers : pc[w] \in {"unstarted", "done"}

\* C18: under fair scheduling, if every invocation of func ends, the call
\* returns or raises and every worker ends; a worker that finds the queue
\* empty ends at once, which is the only way a worker ends without a
\* failure of func; and the holder of results_lock is never blocked.
C18_Termination ==
    /\ EveryInvocationEnds => <>[]Terminated
    /\ [][\A w \in Workers :
            (pc[w] = "get" /\ args_queue = <<>> /\ pc'[w] # pc[w]) =>
                pc'[w] = "done"]_vars
    /\ [][\A w \in Workers :
            (pc[w] # "done" /\ pc'[w] = "done" /\ ~WorkerFuncRaised(w)') =>
                (pc[w] = "get" /\ args_queue = <<>>)]_vars
    /\ [](results_lock # -1 => pc[results_lock] = "append")

\* C18 witness: two workers have both ended on the empty queue after
\* competing for the lock, and the call has returned both results.
C18_Witness ==
    /\ Terminated /\ pcMain = "returned"
    /\ Len(threads) = 2 /\ Len(ret) = 2
    /\ item[1] # NoItem /\ item[2] # NoItem

====
